---- MODULE Spec2Model ----
(***************************************************************************)
(* Model of the PostGraphile schema builder and connection pool adapter    *)
(* (src/src/postgraphile/postgraphile.ts) and of the WebSocket bridge      *)
(* (src/src/postgraphile/http/subscriptions.ts).                           *)
(*                                                                         *)
(* The specifications share the variables below:                           *)
(*   SpecPool    - postgraphile() setup applied to every shape of first    *)
(*                 argument (toPgPool, quacksLikePgPool, isPlainObject);   *)
(*   SpecBackoff - the backoff computation of the catch block applied to   *)
(*                 every attempt count;                                    *)
(*   Spec        - the life of one handler: createGqlSchema's retry loop,  *)
(*                 the watch subscription, releaseOnce and the handler's   *)
(*                 release(), interleaved at their await points;           *)
(*   SpecReaders - the retry loop and the watch together with callers of   *)
(*                 getGraphQLSchema;                                       *)
(*   SpecConnect - onConnect applied to every upgrade request and set of   *)
(*                 connection parameters, in both protocol versions;       *)
(*   SpecRetry   - the retry loop under a policy that approves every    *)
(*                 retry, with fair scheduling of what it awaits;          *)
(*   SpecWs      - the context slots and the responses of the operations   *)
(*                 of several sockets;                                     *)
(*   SpecKey     - socket numbers and the slot keys built from them;       *)
(*   SpecWriteHead - dummyRes.writeHead applied to every call;             *)
(*   SpecEnhance - calls of enhanceHttpServerWithWebSockets on one server  *)
(*                 while the schema is built and afterwards;               *)
(*   SpecValidate - one operation from the end of getContext to its        *)
(*                 execution, while the watch swaps snapshots.             *)
(***************************************************************************)
EXTENDS Integers, Sequences, FiniteSets, TLC

VARIABLES
    (* postgraphile() setup *)
    poolOrConfig,     \* the first argument, as a description of the JS value
    secondArg,        \* shape of the second argument
    optionsConflict,  \* handleErrors combined with extendedErrors/showErrorStack
    setup,            \* "unset" | "ok" | "threw"
    pgPool,           \* "none" | "input" | "new"
    releasePgPool,    \* "null" | "end"
    (* the pg pool behind pgPool *)
    poolEnded,        \* pgPool.ended
    endCalls,         \* number of invocations of pgPool.end()
    (* options read by the schema builder *)
    watchPg,          \* options.watchPg
    retryOnInitFail,  \* "absent" | "truthy" | "function"
    (* getPostgraphileSchemaBuilder closure *)
    released,         \* let released
    releaseWatchFn,   \* 0 for null, else the id of the watch it releases
    gqlSchema,        \* 0 for undefined, else a snapshot id
    schemaPromise,    \* gqlSchemaPromise: [state, value]
    (* createGqlSchema frame *)
    pc,               \* position of createGqlSchema
    attempts,         \* let attempts
    delay,            \* const delay of the current catch block
    caught,           \* the error the catch block holds
    (* collaborators *)
    failuresLeft,     \* build failures the data source will still produce
    nextSnapshot,     \* id of the next snapshot the core library builds
    watchCall,        \* the watch call in flight: [id, delivered] (id 0: none)
    watches,          \* ids of the watch subscriptions that are active
    exports,          \* calls of exportGqlSchema made so far
    exitCode,         \* process.exitCode
    exited,           \* 0 while running, else the code of process.exit
    (* observations *)
    buildStarts,      \* build attempts started
    sleeps,           \* delays passed to sleep(), in order
    hookCalls,        \* attempt numbers passed to retryOnInitFail, in order
    hookDurs,         \* ms each resolved retryOnInitFail call took, in order
    vetoed,           \* the hook has vetoed a retry
    emitted,          \* per 'schemas:changed' emit: the new snapshot, what a listener reads
    (* handler.release() calls *)
    rel,              \* the calls made so far: [pc, fn, result]
    (* callers of getGraphQLSchema, exportGqlSchema *)
    calls,            \* futures handed out while the build was in flight
    exportFailed,     \* 0, else the exportGqlSchema call that failed last
    (* enhanceHttpServerWithWebSockets *)
    websockets,       \* subscriptionServerOptions.websockets: "v0" | "v1"
    socketId,         \* let socketId
    sockets,          \* per socket: its fields and its upgrade request
    keepalivePromisesByContextKey,  \* per key: 0 for null or undefined, else the id of a deferred
    deferreds,        \* the deferreds that are not resolved: [key, id]
    operations,       \* per socket and operation id: started, getContext calls
    message,          \* the operation message being validated
    outcome,          \* what onOperation / onSubscribe returned for it
    websocketOperations,  \* subscriptionServerOptions.operations: "all" | "subscriptions"
    responses,        \* per socket: __postgraphileRes, responses made, middleware runs pending
    writeHeadCall,    \* the arguments of a dummyRes.writeHead call
    keys,             \* the keys computed so far: [socket, opId, key]
    websocketServer   \* the http server: its flag, its listeners, the enhance calls

setupVars == <<poolOrConfig, secondArg, optionsConflict, setup, pgPool, releasePgPool>>
poolVars == <<poolEnded, endCalls>>
optionVars == <<watchPg, retryOnInitFail>>
builderVars == <<released, releaseWatchFn, gqlSchema, schemaPromise, pc, attempts, delay, caught>>
envVars == <<failuresLeft, nextSnapshot, watchCall, watches, exports, exitCode, exited>>
obsVars == <<buildStarts, sleeps, hookCalls, hookDurs, vetoed, emitted>>
relVars == <<rel>>
readVars == <<calls, exportFailed>>
wsVars == <<websockets, socketId, sockets, keepalivePromisesByContextKey, deferreds, operations, message, outcome,
           websocketOperations, responses, writeHeadCall, keys, websocketServer>>
vars == <<setupVars, poolVars, optionVars, builderVars, envVars, obsVars, relVars, readVars, wsVars>>

(***************************************************************************)
(* Bounds                                                                  *)
(***************************************************************************)
MaxFailures == 2      \* build failures a data source may produce
MaxAttempts == 3      \* cap on the attempt counter in Spec
MaxSnapshots == 2     \* snapshots the core library builds
MaxReleases == 2      \* calls of handler.release()
MaxBackoffAttempts == 60  \* attempt counts SpecBackoff draws

(***************************************************************************)
(* JavaScript values handed to postgraphile() as poolOrConfig              *)
(***************************************************************************)
\* constructor of a value: "PoolSuper" is the function Pool.super_ itself,
\* "OtherPool" and "BoundPool" are functions of another module instance named
\* Pool and BoundPool, "none" is a value without a constructor function.
Ctors == {"PoolSuper", "OtherPool", "BoundPool", "Object", "Foo", "none"}

JsValue(kind, truthy, inst, ctor, cl, op, co, en, qu, proto, tag) ==
    [kind |-> kind, truthy |-> truthy, instanceofPool |-> inst, ctor |-> ctor,
     Client |-> cl, options |-> op, connect |-> co, end |-> en, query |-> qu,
     plainProto |-> proto, objectTag |-> tag]

Primitive(kind, truthy) ==
    JsValue(kind, truthy, FALSE, "none", FALSE, FALSE, FALSE, FALSE, FALSE, FALSE, FALSE)

Primitives ==
    { Primitive("undefined", FALSE), Primitive("null", FALSE),
      Primitive("string", TRUE), Primitive("string", FALSE),
      Primitive("number", TRUE), Primitive("number", FALSE),
      Primitive("boolean", TRUE), Primitive("boolean", FALSE),
      Primitive("function", TRUE) }

Objects ==
    { JsValue("object", TRUE, inst, ctor, cl, op, co, en, qu, proto, tag) :
        inst \in BOOLEAN, ctor \in Ctors, cl \in BOOLEAN, op \in BOOLEAN,
        co \in BOOLEAN, en \in BOOLEAN, qu \in BOOLEAN,
        proto \in BOOLEAN, tag \in BOOLEAN }

JsValues == Primitives \cup Objects

\* representative valid first arguments, used by Spec
GenuinePool == JsValue("object", TRUE, TRUE, "BoundPool", TRUE, TRUE, TRUE, TRUE, TRUE, FALSE, TRUE)
ForeignPool == JsValue("object", TRUE, FALSE, "BoundPool", TRUE, TRUE, TRUE, TRUE, TRUE, FALSE, TRUE)
ConnectionString == Primitive("string", TRUE)
PlainConfig == JsValue("object", TRUE, FALSE, "Object", FALSE, FALSE, FALSE, FALSE, FALSE, TRUE, TRUE)
NoArgument == Primitive("undefined", FALSE)
SampleInputs == {GenuinePool, ForeignPool, ConnectionString, PlainConfig, NoArgument}

isPlainObject(obj) ==
    IF ~obj.truthy \/ obj.kind # "object" \/ ~obj.objectTag THEN FALSE
    ELSE obj.plainProto

hasPoolConstructor(obj) ==
    obj.truthy /\ obj.ctor # "none" /\ obj.ctor = "PoolSuper"

constructorName(obj) ==
    IF obj.truthy /\ obj.ctor # "none"
    THEN CASE obj.ctor \in {"PoolSuper", "OtherPool"} -> "Pool"
           [] OTHER -> obj.ctor
    ELSE "null"

\* faulty variant, for comparison: the duck test forgets to look for end
quacksLikePgPoolNoEnd(pgConfig) ==
    IF pgConfig.instanceofPool THEN TRUE
    ELSE IF hasPoolConstructor(pgConfig) THEN TRUE
    ELSE IF ~pgConfig.truthy \/ pgConfig.kind # "object" THEN FALSE
    ELSE IF constructorName(pgConfig) # "Pool" /\ constructorName(pgConfig) # "BoundPool" THEN FALSE
    ELSE IF ~pgConfig.Client THEN FALSE
    ELSE IF ~pgConfig.options THEN FALSE
    ELSE IF ~pgConfig.connect THEN FALSE
    ELSE IF ~pgConfig.query THEN FALSE
    ELSE TRUE

quacksLikePgPool(pgConfig) ==
    IF pgConfig.instanceofPool THEN TRUE
    ELSE IF hasPoolConstructor(pgConfig) THEN TRUE
    ELSE IF ~pgConfig.truthy \/ pgConfig.kind # "object" THEN FALSE
    ELSE IF constructorName(pgConfig) # "Pool" /\ constructorName(pgConfig) # "BoundPool" THEN FALSE
    ELSE IF ~pgConfig.Client THEN FALSE
    ELSE IF ~pgConfig.options THEN FALSE
    ELSE IF ~pgConfig.connect THEN FALSE
    ELSE IF ~pgConfig.end THEN FALSE
    ELSE IF ~pgConfig.query THEN FALSE
    ELSE TRUE

\* result of toPgPool: threw, or the pool and the release callback
toPgPool(x) ==
    IF quacksLikePgPool(x) THEN [threw |-> FALSE, pgPool |-> "input", releasePgPool |-> "null"]
    ELSE IF x.kind = "string" THEN [threw |-> FALSE, pgPool |-> "new", releasePgPool |-> "end"]
    ELSE IF ~x.truthy THEN [threw |-> FALSE, pgPool |-> "new", releasePgPool |-> "end"]
    ELSE IF isPlainObject(x) THEN [threw |-> FALSE, pgPool |-> "new", releasePgPool |-> "end"]
    ELSE [threw |-> TRUE, pgPool |-> "none", releasePgPool |-> "null"]

(***************************************************************************)
(* Program constants                                                       *)
(***************************************************************************)
BackoffFactor == 100
BackoffCap == 30000
DefaultWaitThreshold == 50
ExitInitFail == 34
ExitExportFail == 35

Min(a, b) == IF a < b THEN a ELSE b

\* faulty variants, for comparison: a delay linear in the attempt count; a delay without the cap
BackoffLinear(k) == Min(BackoffFactor * k, BackoffCap)

BackoffUncapped(k) == BackoffFactor * k * k

\* const delay = Math.min(100 * Math.pow(attempts, 2), 30000)
Backoff(k) == Min(BackoffFactor * k * k, BackoffCap)

\* faulty variant, for comparison: a hook that took exactly 50 ms is still made to wait
NeedsDefaultWaitInclusive(dur) == dur <= DefaultWaitThreshold

\* if (dur < 50): the hook did not wait long enough, use the default wait
NeedsDefaultWait(dur) == dur < DefaultWaitThreshold

\* faulty variant, for comparison: the missing policy is taken for a policy
ExitOnFailNever(retry) == FALSE

\* const exitOnFail = !options.retryOnInitFail
ExitOnFail(retry) == retry = "absent"

\* durations, in ms, a retryOnInitFail call may take
HookDurations == {49, 50}

\* the id given to the next watch subscription: ids are opaque, the smallest
\* one that names no subscription the program still refers to is taken
FreshWatch ==
    CHOOSE n \in 1..(Cardinality(watches) + 2) :
        /\ n \notin watches \cup {releaseWatchFn}
        /\ \A m \in 1..(n - 1) : m \in watches \cup {releaseWatchFn}

Pending == [state |-> "pending", value |-> 0]
NoWatchCall == [id |-> 0, delivered |-> FALSE]

\* faulty variant, for comparison: the snapshot the watch has swapped in is ignored
getGraphQLSchemaPromiseOnly == schemaPromise

\* getGraphQLSchema: () => (gqlSchema ? Promise.resolve(gqlSchema) : gqlSchemaPromise)
getGraphQLSchema ==
    IF gqlSchema # 0 THEN [state |-> "resolved", value |-> gqlSchema] ELSE schemaPromise

\* which promise object a call of getGraphQLSchema hands out: the builder's
\* gqlSchemaPromise, or a new one made by Promise.resolve(gqlSchema)
getGraphQLSchemaFuture ==
    IF gqlSchema # 0 THEN "Promise.resolve" ELSE "gqlSchemaPromise"

Running == setup = "ok" /\ exited = 0

(***************************************************************************)
(* pgPool.end(): the first call ends the pool (the shutdown test reads     *)
(* pgPool.ended before and after); a pool with that property rejects a     *)
(* further call with 'Called end on pool more than once'.                  *)
(***************************************************************************)
EndOutcomes == IF poolEnded THEN {"error"} ELSE {"ok"}

\* faulty variant, for comparison: the release callback is never called
CallReleasePgPoolSkipped(r) ==
    /\ r = "ok"
    /\ UNCHANGED poolVars

\* releasePgPool && await releasePgPool(), with the outcome r of the call
CallReleasePgPool(r) ==
    IF releasePgPool = "end"
    THEN /\ r \in EndOutcomes
         /\ poolEnded' = TRUE
         /\ endCalls' = endCalls + 1
    ELSE /\ r = "ok"
         /\ UNCHANGED poolVars

(***************************************************************************)
(* createGqlSchema                                                         *)
(***************************************************************************)
\* the catch block, from its entry to its first await (or to process.exit)
EnterCatch(error) ==
    /\ attempts' = attempts + 1
    /\ delay' = Backoff(attempts + 1)
    /\ caught' = error
    /\ IF retryOnInitFail = "function"
       THEN /\ pc' = "hook"
            /\ hookCalls' = Append(hookCalls, attempts + 1)
            /\ UNCHANGED <<sleeps, exited>>
       ELSE IF ExitOnFail(retryOnInitFail)
       THEN /\ pc' = "exited"
            /\ exited' = ExitInitFail
            /\ UNCHANGED <<sleeps, hookCalls>>
       ELSE /\ pc' = "sleep"
            /\ sleeps' = Append(sleeps, Backoff(attempts + 1))
            /\ UNCHANGED <<hookCalls, exited>>

\* one iteration of while (true), from the top of try to its first await
BeginAttempt ==
    /\ buildStarts' = buildStarts + 1
    /\ IF watchPg
       THEN IF releaseWatchFn # 0
            THEN /\ EnterCatch("releaseWatchFnSet")
                 /\ UNCHANGED <<watchCall, watches>>
            ELSE /\ pc' = "watch"
                 /\ watchCall' = [id |-> FreshWatch, delivered |-> FALSE]
                 /\ watches' = watches \cup {FreshWatch}
                 /\ UNCHANGED <<attempts, delay, caught, hookCalls, sleeps, exited>>
       ELSE /\ pc' = "create"
            /\ UNCHANGED <<watchCall, watches>>
            /\ UNCHANGED <<attempts, delay, caught, hookCalls, sleeps, exited>>

\* return gqlSchema (after the 'generated successfully' log)
ReturnSchema(schema) ==
    /\ pc' = "done"
    /\ schemaPromise' = [state |-> "resolved", value |-> schema]

\* catch (e) { throw GraphQLError('Failed to initialize GraphQL schema.') }
FailInit ==
    /\ pc' = "failed"
    /\ schemaPromise' = [state |-> "rejected", value |-> 503]

\* gqlSchema = await createPostGraphileSchema(...); exportGqlSchema(gqlSchema)
CreateResolve ==
    /\ Running /\ pc = "create"
    /\ gqlSchema' = nextSnapshot
    /\ nextSnapshot' = nextSnapshot + 1
    /\ exports' = exports + 1
    /\ ReturnSchema(nextSnapshot)
    /\ UNCHANGED <<wsVars, readVars, setupVars, poolVars, optionVars, released, releaseWatchFn, attempts, delay, caught>>
    /\ UNCHANGED <<failuresLeft, watchCall, watches, exitCode, exited>>
    /\ UNCHANGED <<obsVars, relVars>>

\* createPostGraphileSchema rejects
CreateReject ==
    /\ Running /\ pc = "create"
    /\ failuresLeft > 0
    /\ failuresLeft' = failuresLeft - 1
    /\ EnterCatch("build")
    /\ UNCHANGED <<wsVars, readVars, setupVars, poolVars, optionVars, released, releaseWatchFn, gqlSchema, schemaPromise>>
    /\ UNCHANGED <<nextSnapshot, watchCall, watches, exports, exitCode>>
    /\ UNCHANGED <<buildStarts, hookDurs, vetoed, emitted, relVars>>

(***************************************************************************)
(* watchPostGraphileSchema.  A call delivers a first snapshot through the  *)
(* callback and then resolves to its release function, or rejects without  *)
(* having delivered; the case the code guards against, resolving without   *)
(* having delivered, is allowed too.  A watch that is active delivers a    *)
(* new snapshot on every upstream change.                                  *)
(***************************************************************************)
\* newSchema => { gqlSchema = newSchema; emit('schemas:changed'); exportGqlSchema(gqlSchema) }
WatchDeliver(w) ==
    /\ Running /\ w \in watches
    /\ nextSnapshot <= MaxSnapshots
    /\ gqlSchema' = nextSnapshot
    /\ schemaPromise' = schemaPromise
    /\ nextSnapshot' = nextSnapshot + 1
    /\ emitted' = Append(emitted, [snapshot |-> nextSnapshot, read |-> getGraphQLSchema'])
    /\ exports' = exports + 1
    /\ watchCall' = IF watchCall.id = w THEN [watchCall EXCEPT !.delivered = TRUE] ELSE watchCall
    /\ UNCHANGED <<wsVars, readVars, setupVars, poolVars, optionVars, released, releaseWatchFn, pc, attempts, delay, caught>>
    /\ UNCHANGED <<failuresLeft, watches, exitCode, exited>>
    /\ UNCHANGED <<buildStarts, sleeps, hookCalls, hookDurs, vetoed, relVars>>

\* releaseWatchFn = await watchPostGraphileSchema(...); if (!gqlSchema) throw ...
WatchResolve ==
    /\ Running /\ pc = "watch"
    /\ releaseWatchFn' = watchCall.id
    /\ watchCall' = NoWatchCall
    /\ IF gqlSchema = 0
       THEN /\ EnterCatch("consistency")
            /\ UNCHANGED schemaPromise
       ELSE /\ ReturnSchema(gqlSchema)
            /\ UNCHANGED <<attempts, delay, caught, hookCalls, sleeps, exited>>
    /\ UNCHANGED <<wsVars, readVars, setupVars, poolVars, optionVars, released, gqlSchema>>
    /\ UNCHANGED <<failuresLeft, nextSnapshot, watches, exports, exitCode>>
    /\ UNCHANGED <<buildStarts, hookDurs, vetoed, emitted, relVars>>

\* watchPostGraphileSchema rejects
WatchReject ==
    /\ Running /\ pc = "watch"
    /\ failuresLeft > 0 /\ ~watchCall.delivered
    /\ failuresLeft' = failuresLeft - 1
    /\ watches' = watches \ {watchCall.id}
    /\ watchCall' = NoWatchCall
    /\ EnterCatch("build")
    /\ UNCHANGED <<wsVars, readVars, setupVars, poolVars, optionVars, released, releaseWatchFn, gqlSchema, schemaPromise>>
    /\ UNCHANGED <<nextSnapshot, exports, exitCode>>
    /\ UNCHANGED <<buildStarts, hookDurs, vetoed, emitted, relVars>>

(***************************************************************************)
(* options.retryOnInitFail(error, attempts)                                *)
(***************************************************************************)
\* the hook resolves to a truthy value after dur ms
HookApprove(dur) ==
    /\ Running /\ pc = "hook"
    /\ IF NeedsDefaultWait(dur)
       THEN /\ pc' = "sleep"
            /\ sleeps' = Append(sleeps, delay)
            /\ UNCHANGED <<attempts, delay, caught, hookCalls, exited>>
            /\ UNCHANGED <<buildStarts, watchCall, watches>>
       ELSE /\ attempts < MaxAttempts
            /\ BeginAttempt
    /\ hookDurs' = Append(hookDurs, dur)
    /\ UNCHANGED <<wsVars, readVars, setupVars, poolVars, optionVars, released, releaseWatchFn, gqlSchema, schemaPromise>>
    /\ UNCHANGED <<failuresLeft, nextSnapshot, exports, exitCode>>
    /\ UNCHANGED <<vetoed, emitted, relVars>>

\* await sleep(delay) is over: next iteration
SleepDone ==
    /\ Running /\ pc = "sleep"
    /\ attempts < MaxAttempts
    /\ BeginAttempt
    /\ UNCHANGED <<wsVars, readVars, setupVars, poolVars, optionVars, released, releaseWatchFn, gqlSchema, schemaPromise>>
    /\ UNCHANGED <<failuresLeft, nextSnapshot, exports, exitCode>>
    /\ UNCHANGED <<hookDurs, vetoed, emitted, relVars>>

\* the hook resolves to a falsy value after dur ms: await releaseOnce(), up to
\* its first await
HookVeto(dur) ==
    /\ Running /\ pc = "hook"
    /\ vetoed' = TRUE
    /\ hookDurs' = Append(hookDurs, dur)
    /\ IF released
       THEN /\ FailInit
            /\ UNCHANGED <<released, watches, poolVars>>
       ELSE /\ released' = TRUE
            /\ IF releaseWatchFn # 0
               THEN /\ watches' = watches \ {releaseWatchFn}
                    /\ pc' = "releaseOnceWatch"
                    /\ UNCHANGED <<schemaPromise, poolVars>>
               ELSE /\ \E r \in {"ok", "error"} : CallReleasePgPool(r)
                    /\ FailInit
                    /\ UNCHANGED watches
    /\ UNCHANGED <<wsVars, readVars, setupVars, optionVars, releaseWatchFn, gqlSchema, attempts, delay, caught>>
    /\ UNCHANGED <<failuresLeft, nextSnapshot, watchCall, exports, exitCode, exited>>
    /\ UNCHANGED <<buildStarts, sleeps, hookCalls, emitted, relVars>>

\* releaseWatch resumes in releaseOnce: releaseWatchFn = null; releasePgPool; throw error
ReleaseOnceWatchDone ==
    /\ Running /\ pc = "releaseOnceWatch"
    /\ releaseWatchFn' = 0
    /\ \E r \in {"ok", "error"} : CallReleasePgPool(r)
    /\ FailInit
    /\ UNCHANGED <<wsVars, readVars, setupVars, optionVars, released, gqlSchema, attempts, delay, caught>>
    /\ UNCHANGED <<envVars, obsVars, relVars>>

\* the hook throws or rejects
HookReject ==
    /\ Running /\ pc = "hook"
    /\ FailInit
    /\ UNCHANGED <<wsVars, readVars, setupVars, poolVars, optionVars, released, releaseWatchFn, gqlSchema, attempts, delay, caught>>
    /\ UNCHANGED <<envVars, obsVars, relVars>>

(***************************************************************************)
(* exportGqlSchema: called after every (re)build and never awaited.  A     *)
(* successful export changes nothing in the program; a failed one, at any  *)
(* time after the call, sets process.exitCode.  Every snapshot is exported *)
(* once, when it becomes the current one: call k exports snapshot k.       *)
(***************************************************************************)
\* faulty variant, for comparison: a failed export terminates the process
ExportFailExits(call) ==
    /\ Running /\ call \in 1..exports
    /\ exitCode' = ExitExportFail
    /\ exited' = ExitExportFail
    /\ exportFailed' = call
    /\ UNCHANGED <<wsVars, calls, setupVars, poolVars, optionVars, builderVars, obsVars, relVars>>
    /\ UNCHANGED <<failuresLeft, nextSnapshot, watchCall, watches, exports>>

\* catch (error) { process.exitCode = 35; logSeriousError(...) }
ExportFail(call) ==
    /\ Running /\ call \in 1..exports
    /\ exitCode' = ExitExportFail
    /\ exportFailed' = call
    /\ UNCHANGED <<wsVars, calls, setupVars, poolVars, optionVars, builderVars, obsVars, relVars>>
    /\ UNCHANGED <<failuresLeft, nextSnapshot, watchCall, watches, exports, exited>>

(***************************************************************************)
(* Callers of getGraphQLSchema while createGqlSchema has not returned      *)
(***************************************************************************)
\* a call made while the build is in flight: the future it is handed, and the
\* state of that future at the call
GetSchemaCall ==
    /\ Running /\ schemaPromise.state = "pending"
    /\ LET c == [future |-> getGraphQLSchemaFuture, now |-> getGraphQLSchema] IN
         /\ c \notin calls
         /\ calls' = calls \cup {c}
    /\ UNCHANGED <<wsVars, exportFailed, setupVars, poolVars, optionVars, builderVars, envVars, obsVars, relVars>>

(***************************************************************************)
(* The handler's release(): releaseWatch(), then releasePgPool()           *)
(***************************************************************************)
\* a call of release(), up to its first await on the watch or to its end
ReleaseCall ==
    /\ Running /\ Len(rel) < MaxReleases
    /\ IF releaseWatchFn # 0
       THEN /\ watches' = watches \ {releaseWatchFn}
            /\ rel' = Append(rel, [pc |-> "watch", result |-> "none"])
            /\ UNCHANGED poolVars
       ELSE /\ \E r \in {"ok", "error"} :
                 /\ CallReleasePgPool(r)
                 /\ rel' = Append(rel, [pc |-> "done", result |-> r])
            /\ UNCHANGED watches
    /\ UNCHANGED <<wsVars, readVars, setupVars, optionVars, builderVars, obsVars>>
    /\ UNCHANGED <<failuresLeft, nextSnapshot, watchCall, exports, exitCode, exited>>

\* releaseWatch resumes in call i: releaseWatchFn = null; then releasePgPool
ReleaseWatchDone(i) ==
    /\ Running /\ i \in 1..Len(rel) /\ rel[i].pc = "watch"
    /\ releaseWatchFn' = 0
    /\ \E r \in {"ok", "error"} :
         /\ CallReleasePgPool(r)
         /\ rel' = [rel EXCEPT ![i] = [pc |-> "done", result |-> r]]
    /\ UNCHANGED <<wsVars, readVars, setupVars, optionVars, released, gqlSchema, schemaPromise, pc, attempts, delay, caught>>
    /\ UNCHANGED <<envVars, obsVars>>

(***************************************************************************)
(* enhanceHttpServerWithWebSockets (http/subscriptions.ts)                 *)
(***************************************************************************)
MaxContexts == 2      \* getContext calls in flight at one time
MaxParams == 2        \* entries of a connectionParams object
MaxErrors == 2        \* validation errors one validate() call reports
MaxSocketId == 10     \* connects of sockets other than the ones followed
MaxKeys == 2          \* keys computed in one behaviour
MaxEnhanceCalls == 3  \* calls of enhanceHttpServerWithWebSockets on one server

\* the sockets that are upgraded, and the operation ids their clients use
Sockets == {1, 2}
OpIds == {"a", "b"}

(***************************************************************************)
(* Header and connection parameter values.  A value is a JS string, a JS   *)
(* number (v is its decimal text) or undefined (a key that is not there).  *)
(***************************************************************************)
Str(v) == [t |-> "string", v |-> v]
Num(v) == [t |-> "number", v |-> v]
Absent == [t |-> "undefined", v |-> ""]

\* !x is false
Truthy(x) == x.t # "undefined" /\ x.v # "" /\ ~(x.t = "number" /\ x.v = "0")

\* String(x)
JsString(x) == [t |-> "string", v |-> IF x.t = "undefined" THEN "undefined" ELSE x.v]

\* names of request.headers (node gives them in lower case)
HeaderNames == {"authorization", "origin"}

\* keys a client may put into connectionParams
ParamKeys == {"authorization", "Authorization", "origin", "Origin"}

\* key.toLowerCase()
toLowerCase(key) ==
    CASE key = "Authorization" -> "authorization"
      [] key = "Origin" -> "origin"
      [] OTHER -> key

NoHeaders == [n \in HeaderNames |-> Absent]

\* Object.keys(obj).reduce((memo, key) => { memo[key.toLowerCase()] = obj[key] }, {})
\* over an object given as its entries <<key, value>> in insertion order
RECURSIVE lowerCaseKeysFrom(_, _, _)
lowerCaseKeysFrom(obj, memo, i) ==
    IF i > Len(obj) THEN memo
    ELSE lowerCaseKeysFrom(obj, [memo EXCEPT ![toLowerCase(obj[i][1])] = obj[i][2]], i + 1)

lowerCaseKeys(obj) == lowerCaseKeysFrom(obj, NoHeaders, 1)

\* { ...a, ...b }
Spread(a, b) == [n \in HeaderNames |-> IF b[n] # Absent THEN b[n] ELSE a[n]]

\* onConnect of either protocol version, after socket['postgraphileId'] = ++socketId:
\* what it leaves in request.headers and in socket['postgraphileHeaders'].  v0
\* throws without a request, and in lowerCaseKeys without connection parameters
\* (Object.keys(undefined)); v1 reads connectionParams || {}.
onConnect(version, connectionParams, hasRequest, headers) ==
    IF version = "v0" /\ (~hasRequest \/ ~connectionParams.defined)
    THEN [threw |-> TRUE, headers |-> headers, postgraphileHeaders |-> NoHeaders]
    ELSE LET normalizedConnectionParams ==
                 lowerCaseKeys(IF connectionParams.defined THEN connectionParams.entries ELSE <<>>)
             newHeaders ==
                 IF ~Truthy(headers["authorization"]) /\ Truthy(normalizedConnectionParams["authorization"])
                 THEN [headers EXCEPT !["authorization"] = JsString(normalizedConnectionParams["authorization"])]
                 ELSE headers
         IN  [threw |-> FALSE, headers |-> newHeaders,
              postgraphileHeaders |-> Spread(normalizedConnectionParams, newHeaders)]

\* a connect event: the upgrade request as the client sent it and the payload
\* of its connection_init message
Sent(hasRequest, headers, connectionParams) ==
    [hasRequest |-> hasRequest, headers |-> headers, connectionParams |-> connectionParams]

NoParams == [defined |-> TRUE, entries |-> <<>>]

PlainSent == Sent(TRUE, NoHeaders, NoParams)

\* a socket the server has upgraded and the library has not yet connected
Upgraded(sent) ==
    [state |-> "upgraded", postgraphileId |-> 0, sent |-> sent,
     headers |-> sent.headers, postgraphileHeaders |-> NoHeaders]

\* the library calls onConnect for socket s (the sockets are numbered in the
\* order in which they connect)
Connect(s) ==
    /\ sockets[s].state = "upgraded"
    /\ \A t \in 1..(s - 1) : sockets[t].state # "upgraded"
    /\ socketId' = socketId + 1
    /\ LET ws == sockets[s]
           r == onConnect(websockets, ws.sent.connectionParams, ws.sent.hasRequest, ws.headers)
       IN  sockets' = [sockets EXCEPT ![s] =
                [state |-> IF r.threw THEN "refused" ELSE "connected",
                 postgraphileId |-> socketId + 1,
                 sent |-> ws.sent,
                 headers |-> r.headers,
                 postgraphileHeaders |-> r.postgraphileHeaders]]
    /\ UNCHANGED <<websocketServer, keys, websockets, websocketOperations, writeHeadCall, responses, keepalivePromisesByContextKey, deferreds, operations, message, outcome>>
    /\ UNCHANGED <<setupVars, poolVars, optionVars, builderVars, envVars, obsVars, relVars, readVars>>

(***************************************************************************)
(* The context slots.  A key is the text ws['postgraphileId'] + '|' + opId:*)
(* the decimal digits of the socket's number, a bar, the operation id.     *)
(***************************************************************************)
\* faulty variant, for comparison: the two parts are joined without the bar
contextKeyNoSeparator(ws, opId) == ToString(ws.postgraphileId) \o opId

contextKey(ws, opId) == ToString(ws.postgraphileId) \o "|" \o opId

\* the keys of the operations of the sockets: socket s is given the number s
ContextKeys == {contextKey([postgraphileId |-> s], opId) : s \in Sockets, opId \in OpIds}

\* the keys of one socket
SocketKeys(ws) == {contextKey(ws, opId) : opId \in OpIds}

\* operation ids as clients may choose them: any text
KeyOpIds == {"a", "1a", "|a"}

\* contextKey(ws, opId) is computed for an operation of a connected socket
KeyBuild(s, opId) ==
    /\ sockets[s].state = "connected"
    /\ Cardinality(keys) < MaxKeys
    /\ keys' = keys \cup {[socket |-> s, opId |-> opId, key |-> contextKey(sockets[s], opId)]}
    /\ UNCHANGED <<websocketServer, websockets, websocketOperations, writeHeadCall, responses, socketId, sockets, keepalivePromisesByContextKey, deferreds, operations, message, outcome>>
    /\ UNCHANGED <<setupVars, poolVars, optionVars, builderVars, envVars, obsVars, relVars, readVars>>

\* the library calls onConnect for a socket that is not followed further
OtherConnect ==
    /\ socketId < MaxSocketId
    /\ socketId' = socketId + 1
    /\ UNCHANGED <<websocketServer, keys, websockets, websocketOperations, writeHeadCall, responses, sockets, keepalivePromisesByContextKey, deferreds, operations, message, outcome>>
    /\ UNCHANGED <<setupVars, poolVars, optionVars, builderVars, envVars, obsVars, relVars, readVars>>

\* the slot table and the unresolved deferreds, as the functions below take
\* and return them; promise.resolve() takes the deferred out of defs
Slots == [slots |-> keepalivePromisesByContextKey, defs |-> deferreds]

\* deferred(): a new object.  Identities are opaque: a deferred is named by
\* the key it is made for and the smallest number that names no unresolved
\* deferred of that key
NewDeferred(st, key) ==
    CHOOSE n \in 1..(Cardinality(st.defs) + 1) :
        /\ [key |-> key, id |-> n] \notin st.defs
        /\ \A m \in 1..(n - 1) : [key |-> key, id |-> m] \in st.defs

\* faulty variant, for comparison: every slot of the socket is released
releaseContextForWholeSocket(st, ws, opId) ==
    [slots |-> [k \in ContextKeys |-> IF k \in SocketKeys(ws) THEN 0 ELSE st.slots[k]],
     defs |-> {d \in st.defs :
                 ~(d.key \in SocketKeys(ws) /\ st.slots[d.key] = d.id)}]

releaseContextForSocketAndOpId(st, ws, opId) ==
    LET promise == st.slots[contextKey(ws, opId)] IN
    IF promise # 0
    THEN [slots |-> [st.slots EXCEPT ![contextKey(ws, opId)] = 0],
          defs |-> st.defs \ {[key |-> contextKey(ws, opId), id |-> promise]}]
    ELSE st

\* faulty variant, for comparison: the cell is stored without releasing the old one
addContextWithoutRelease(st, ws, opId) ==
    LET promise == NewDeferred(st, contextKey(ws, opId)) IN
    [slots |-> [st.slots EXCEPT ![contextKey(ws, opId)] = promise],
     defs |-> st.defs \cup {[key |-> contextKey(ws, opId), id |-> promise]}]

addContextForSocketAndOpId(st, ws, opId) ==
    LET afterRelease == releaseContextForSocketAndOpId(st, ws, opId)
        promise == NewDeferred(st, contextKey(ws, opId))
    IN  [slots |-> [afterRelease.slots EXCEPT ![contextKey(ws, opId)] = promise],
         defs |-> afterRelease.defs \cup {[key |-> contextKey(ws, opId), id |-> promise]}]

\* getContext calls that have not settled
ContextsInFlight ==
    LET n(k) == operations[k[1]][k[2]].contexts
        RECURSIVE Sum(_)
        Sum(K) == IF K = {} THEN 0
                  ELSE LET k == CHOOSE x \in K : TRUE IN n(k) + Sum(K \ {k})
    IN  Sum(Sockets \X OpIds)

NoOperation == [started |-> FALSE, contexts |-> 0]

\* a socket before its first reqResFromSocket call
NoResponse == [stored |-> FALSE, made |-> 0, applying |-> [o \in OpIds |-> 0]]

\* a call dummyRes.writeHead(statusCode, _statusMessage, headers) that has not
\* run: the second argument is a reason phrase, a headers object or not given,
\* the third a headers object or not given
WriteHeadCall(statusCode, statusMessage, headers) ==
    [statusCode |-> statusCode, statusMessage |-> statusMessage, headers |-> headers,
     called |-> FALSE, closed |-> FALSE]

\* no writeHead call
NoWriteHead == WriteHeadCall(0, "undefined", "undefined")

StatusCodes == {100, 101, 200, 201, 204, 301, 304, 400, 404, 500}

WriteHeadCalls ==
    {WriteHeadCall(c, m, h) :
        c \in StatusCodes, m \in {"undefined", "string", "object"}, h \in {"undefined", "object"}}

\* dummyRes.writeHead: whether it calls socket.close()
writeHead(statusCode, statusMessage, headers) ==
    IF statusCode # 0 /\ statusCode > 200
    THEN TRUE
    ELSE IF headers # "undefined"
    THEN TRUE
    ELSE FALSE

\* a middleware or a plugin calls res.writeHead on the response of a socket
WriteHead ==
    /\ ~writeHeadCall.called
    /\ writeHeadCall' = [writeHeadCall EXCEPT
            !.called = TRUE,
            !.closed = writeHead(writeHeadCall.statusCode, writeHeadCall.statusMessage,
                                 writeHeadCall.headers)]
    /\ UNCHANGED <<websocketServer, keys, websockets, websocketOperations, responses, socketId, sockets, keepalivePromisesByContextKey, deferreds, operations, message, outcome>>
    /\ UNCHANGED <<setupVars, poolVars, optionVars, builderVars, envVars, obsVars, relVars, readVars>>

\* reqResFromSocket, up to await applyMiddleware(...) when the socket has no
\* __postgraphileRes yet: a ServerResponse is made and the middlewares are
\* started on it; with a stored response the pair is returned at once
reqResFromSocket(res, s, opId) ==
    IF res[s].stored THEN res
    ELSE [res EXCEPT ![s].made = @ + 1, ![s].applying[opId] = @ + 1]

\* applyMiddleware is over for one call: socket['__postgraphileRes'] = dummyRes
MiddlewareDone(s, opId) ==
    /\ responses[s].applying[opId] > 0
    /\ responses' = [responses EXCEPT ![s].stored = TRUE, ![s].applying[opId] = @ - 1]
    /\ UNCHANGED <<websocketServer, keys, websockets, websocketOperations, writeHeadCall, socketId, sockets, keepalivePromisesByContextKey, deferreds, operations, message, outcome>>
    /\ UNCHANGED <<setupVars, poolVars, optionVars, builderVars, envVars, obsVars, relVars, readVars>>

\* a start / subscribe message for an operation id that is not running:
\* onOperation / onSubscribe runs up to the first await of getContext(socket, opId)
OperationStart(s, opId) ==
    /\ sockets[s].state = "connected"
    /\ ~operations[s][opId].started
    /\ ContextsInFlight < MaxContexts
    /\ operations' = [operations EXCEPT ![s][opId] =
            [started |-> TRUE, contexts |-> @.contexts + 1]]
    /\ responses' = reqResFromSocket(responses, s, opId)
    /\ UNCHANGED <<websocketServer, keys, websockets, websocketOperations, writeHeadCall, socketId, sockets, keepalivePromisesByContextKey, deferreds, message, outcome>>
    /\ UNCHANGED <<setupVars, poolVars, optionVars, builderVars, envVars, obsVars, relVars, readVars>>

\* withPostGraphileContextFromReqRes calls back with the context of one of the
\* getContext calls: addContextForSocketAndOpId(context, socket, opId)
ContextReady(s, opId) ==
    /\ operations[s][opId].contexts > responses[s].applying[opId]
    /\ LET st == addContextForSocketAndOpId(Slots, sockets[s], opId) IN
         /\ keepalivePromisesByContextKey' = st.slots
         /\ deferreds' = st.defs
    /\ operations' = [operations EXCEPT ![s][opId].contexts = @ - 1]
    /\ UNCHANGED <<websocketServer, keys, websockets, websocketOperations, writeHeadCall, responses, socketId, sockets, message, outcome>>
    /\ UNCHANGED <<setupVars, poolVars, optionVars, builderVars, envVars, obsVars, relVars, readVars>>

\* the context factory rejects: getContext rejects
ContextFail(s, opId) ==
    /\ operations[s][opId].contexts > responses[s].applying[opId]
    /\ operations' = [operations EXCEPT ![s][opId].contexts = @ - 1]
    /\ UNCHANGED <<websocketServer, keys, websockets, websocketOperations, writeHeadCall, responses, socketId, sockets, keepalivePromisesByContextKey, deferreds, message, outcome>>
    /\ UNCHANGED <<setupVars, poolVars, optionVars, builderVars, envVars, obsVars, relVars, readVars>>

\* onOperationComplete(socket, opId) / onComplete({ socket }, msg)
OperationComplete(s, opId) ==
    /\ sockets[s].state = "connected"
    /\ operations[s][opId].started
    /\ LET st == releaseContextForSocketAndOpId(Slots, sockets[s], opId) IN
         /\ keepalivePromisesByContextKey' = st.slots
         /\ deferreds' = st.defs
    /\ operations' = [operations EXCEPT ![s][opId].started = FALSE]
    /\ UNCHANGED <<websocketServer, keys, websockets, websocketOperations, writeHeadCall, responses, socketId, sockets, message, outcome>>
    /\ UNCHANGED <<setupVars, poolVars, optionVars, builderVars, envVars, obsVars, relVars, readVars>>

\* the slots after the operations ops of socket ws were released, one by one
RECURSIVE releaseEach(_, _, _)
releaseEach(st, ws, ops) ==
    IF ops = {} THEN st
    ELSE LET opId == CHOOSE o \in ops : TRUE IN
         releaseEach(releaseContextForSocketAndOpId(st, ws, opId), ws, ops \ {opId})

\* the socket closes: the library completes every operation it still runs on
\* it, which calls onOperationComplete / onComplete for each
SocketClose(s) ==
    /\ sockets[s].state = "connected"
    /\ LET st == releaseEach(Slots, sockets[s], {o \in OpIds : operations[s][o].started}) IN
         /\ keepalivePromisesByContextKey' = st.slots
         /\ deferreds' = st.defs
    /\ sockets' = [sockets EXCEPT ![s].state = "closed"]
    /\ operations' = [operations EXCEPT ![s] = [o \in OpIds |-> [@[o] EXCEPT !.started = FALSE]]]
    /\ UNCHANGED <<websocketServer, keys, websockets, websocketOperations, writeHeadCall, responses, socketId, message, outcome>>
    /\ UNCHANGED <<setupVars, poolVars, optionVars, builderVars, envVars, obsVars, relVars, readVars>>

(***************************************************************************)
(* Validation in onOperation (v0) and onSubscribe (v1).  validate() is     *)
(* the GraphQL library's: a message is described by the errors the static  *)
(* rules find in it, the number of per-request rules the                   *)
(* 'postgraphile:validationRules' hook returns for it, and the errors      *)
(* those rules find in it.                                                 *)
(***************************************************************************)
ValidationErrors == {"e1", "e2"}

ErrorLists == UNION {[1..n -> ValidationErrors] : n \in 0..MaxErrors}

\* what getOperationAST finds in the document
OperationTypes == {"query", "mutation", "subscription"}

Message(staticErrors, moreValidationRules, moreErrors, operation) ==
    [staticErrors |-> staticErrors, moreValidationRules |-> moreValidationRules,
     moreErrors |-> moreErrors, operation |-> operation]

Messages ==
    {Message(se, n, me, op) :
        se \in ErrorLists, n \in 0..1, me \in ErrorLists, op \in OperationTypes}

NoMessage == Message(<<>>, 0, <<>>, "subscription")

\* what has become of the message: the schema it was given, the validation
\* layers that have run on it, in order, and the errors reported for it
NoOutcome == [kind |-> "none", errors |-> <<>>, ran |-> <<>>, schema |-> 0]

\* const schema = await getGraphQLSchema(), before the server is created: the
\* snapshot the builder returned
schema == 1

\* faulty variant, for comparison: the schema the server was created with
paramsSchemaCaptured == schema

\* params.schema = await getGraphQLSchema() / const schema = await getGraphQLSchema()
paramsSchema == getGraphQLSchema.value

\* v0: from params.schema = ... to the return; the static rules are handed to
\* SubscriptionServer.create and are run by the library on what is returned
onOperation(msg) ==
    IF msg.moreValidationRules # 0
    THEN IF Len(msg.moreErrors) # 0
         THEN [kind |-> "rejected", errors |-> msg.moreErrors, ran |-> <<"more">>,
               schema |-> paramsSchema]
         ELSE [kind |-> "params", errors |-> <<>>, ran |-> <<"more">>, schema |-> paramsSchema]
    ELSE [kind |-> "params", errors |-> <<>>, ran |-> <<>>, schema |-> paramsSchema]

\* faulty variant, for comparison: the per-request rules are not run
onSubscribeStaticOnly(msg) ==
    IF Len(msg.staticErrors) # 0
    THEN [kind |-> "errors", errors |-> msg.staticErrors, ran |-> <<"static">>,
          schema |-> paramsSchema]
    ELSE [kind |-> "valid", errors |-> <<>>, ran |-> <<"static">>, schema |-> paramsSchema]

\* v1: from const schema = ... to the return
onSubscribe(msg) ==
    IF Len(msg.staticErrors) # 0
    THEN [kind |-> "errors", errors |-> msg.staticErrors, ran |-> <<"static">>,
          schema |-> paramsSchema]
    ELSE IF msg.moreValidationRules # 0
    THEN IF Len(msg.moreErrors) # 0
         THEN [kind |-> "errors", errors |-> msg.moreErrors, ran |-> <<"static", "more">>,
               schema |-> paramsSchema]
         ELSE [kind |-> "valid", errors |-> <<>>, ran |-> <<"static", "more">>,
               schema |-> paramsSchema]
    ELSE [kind |-> "valid", errors |-> <<>>, ran |-> <<"static">>, schema |-> paramsSchema]

\* the operation the message starts: the first socket's operation "a"
TheOperation == <<1, "a">>
TheSocket == TheOperation[1]
TheOpId == TheOperation[2]

\* the handler of the configured protocol version, resumed after
\* await getContext(socket, opId), returns for the message.  Errors returned by
\* onSubscribe are sent by the v1 library as an error message, and it keeps no
\* record of the operation: onComplete is not called for it
Validate ==
    /\ outcome.kind = "none"
    /\ operations[TheSocket][TheOpId].started
    /\ outcome' = IF websockets = "v0" THEN onOperation(message) ELSE onSubscribe(message)
    /\ operations' = IF websockets = "v1" /\ outcome'.kind = "errors"
                     THEN [operations EXCEPT ![TheSocket][TheOpId].started = FALSE]
                     ELSE operations
    /\ UNCHANGED <<websocketServer, keys, websockets, websocketOperations, writeHeadCall, responses, socketId, sockets, keepalivePromisesByContextKey, deferreds, message>>
    /\ UNCHANGED <<setupVars, poolVars, optionVars, builderVars, envVars, obsVars, relVars, readVars>>

\* v0, in the library: validate(params.schema, document, validationRules) on the
\* parameters onOperation resolved to; errors become the result that is sent
StaticValidate ==
    /\ websockets = "v0"
    /\ outcome.kind = "params"
    /\ outcome' = IF Len(message.staticErrors) # 0
                  THEN [outcome EXCEPT !.kind = "errors", !.errors = message.staticErrors,
                                       !.ran = Append(@, "static")]
                  ELSE [outcome EXCEPT !.kind = "valid", !.ran = Append(@, "static")]
    /\ UNCHANGED <<websocketServer, keys, websockets, websocketOperations, writeHeadCall, responses, socketId, sockets, keepalivePromisesByContextKey, deferreds, operations, message>>
    /\ UNCHANGED <<setupVars, poolVars, optionVars, builderVars, envVars, obsVars, relVars, readVars>>

\* faulty variant, for comparison: the execute function of the GraphQL library always
executeAlways(allowed) == "executed"

\* execute: subscriptionServerOptions?.operations === 'all' ? execute : () => { throw ... }
execute(allowed) == IF allowed = "all" THEN "executed" ELSE "threw"

\* the library runs the validated operation: a subscription operation with the
\* subscribe function, any other with the execute function
Execute ==
    /\ outcome.kind = "valid"
    /\ outcome' = [outcome EXCEPT !.kind =
            IF message.operation = "subscription" THEN "subscribed"
            ELSE execute(websocketOperations)]
    /\ UNCHANGED <<websocketServer, keys, websockets, websocketOperations, writeHeadCall, responses, socketId, sockets, keepalivePromisesByContextKey, deferreds, operations, message>>
    /\ UNCHANGED <<setupVars, poolVars, optionVars, builderVars, envVars, obsVars, relVars, readVars>>

\* v0, in the library: a rejected onOperation or a throwing execute function is
\* caught, the error is sent and the operation is unsubscribed, which calls
\* onOperationComplete
Unsubscribe ==
    /\ websockets = "v0"
    /\ outcome.kind \in {"rejected", "threw"}
    /\ OperationComplete(TheSocket, TheOpId)

(***************************************************************************)
(* enhanceHttpServerWithWebSockets(websocketServer, middleware, options).  *)
(* The server carries the flag __postgraphileSubscriptionsEnabled and its  *)
(* 'upgrade' listeners; a call is followed from its entry to the await of  *)
(* the schema and from there to its end.                                   *)
(***************************************************************************)
\* subscriptionServerOptions?.websockets: a protocol version or anything else
WebsocketsArguments == {"v0", "v1", "undefined"}

\* an http server nothing has been called on
NotEnhanced ==
    [enabled |-> FALSE, upgradeListeners |-> 0, subscriptionServers |-> 0,
     pc |-> "idle", websockets |-> "undefined", calls |-> 0, threw |-> 0]

\* an http server after a call with a protocol version has returned
Enhanced(version) ==
    [enabled |-> TRUE, upgradeListeners |-> 1, subscriptionServers |-> 1,
     pc |-> "idle", websockets |-> version, calls |-> 1, threw |-> 0]

\* a call, up to its return at the flag or to await getGraphQLSchema()
EnhanceCall(arg) ==
    /\ websocketServer.calls < MaxEnhanceCalls
    /\ websocketServer' =
         IF websocketServer.enabled
         THEN [websocketServer EXCEPT !.calls = @ + 1]
         ELSE [websocketServer EXCEPT !.calls = @ + 1, !.enabled = TRUE,
                                      !.pc = "schema", !.websockets = arg]
    /\ UNCHANGED <<keys, websockets, websocketOperations, writeHeadCall, responses, socketId, sockets, keepalivePromisesByContextKey, deferreds, operations, message, outcome>>
    /\ UNCHANGED <<setupVars, poolVars, optionVars, builderVars, envVars, obsVars, relVars, readVars>>

\* the schema promise has resolved: the upgrade listener is registered, then
\* the switch creates the server of the version or throws in its default case
EnhanceResume ==
    /\ websocketServer.pc = "schema"
    /\ getGraphQLSchema.state = "resolved"
    /\ IF websocketServer.websockets \in {"v0", "v1"}
       THEN /\ websocketServer' = [websocketServer EXCEPT
                    !.pc = "idle", !.upgradeListeners = @ + 1, !.subscriptionServers = @ + 1]
            /\ websockets' = websocketServer.websockets
       ELSE /\ websocketServer' = [websocketServer EXCEPT
                    !.pc = "idle", !.upgradeListeners = @ + 1, !.threw = @ + 1]
            /\ UNCHANGED websockets
    /\ UNCHANGED <<keys, websocketOperations, writeHeadCall, responses, socketId, sockets, keepalivePromisesByContextKey, deferreds, operations, message, outcome>>
    /\ UNCHANGED <<setupVars, poolVars, optionVars, builderVars, envVars, obsVars, relVars, readVars>>

\* the schema promise has rejected: the call rejects at line 78
EnhanceReject ==
    /\ websocketServer.pc = "schema"
    /\ getGraphQLSchema.state = "rejected"
    /\ websocketServer' = [websocketServer EXCEPT !.pc = "idle", !.threw = @ + 1]
    /\ UNCHANGED <<keys, websockets, websocketOperations, writeHeadCall, responses, socketId, sockets, keepalivePromisesByContextKey, deferreds, operations, message, outcome>>
    /\ UNCHANGED <<setupVars, poolVars, optionVars, builderVars, envVars, obsVars, relVars, readVars>>

\* the bridge before any socket is upgraded
NoSlots ==
    /\ socketId = 0
    /\ keepalivePromisesByContextKey = [k \in ContextKeys |-> 0]
    /\ deferreds = {}
    /\ operations = [s \in Sockets |-> [o \in OpIds |-> NoOperation]]
    /\ responses = [s \in Sockets |-> NoResponse]
    /\ writeHeadCall = NoWriteHead
    /\ keys = {}

NoBridge ==
    /\ websockets = "v0"
    /\ websocketServer = NotEnhanced
    /\ websocketOperations = "subscriptions"
    /\ sockets = [s \in Sockets |-> Upgraded(PlainSent)]
    /\ NoSlots
    /\ message = NoMessage /\ outcome = NoOutcome

(***************************************************************************)
(* postgraphile(poolOrConfig, schemaOrOptions, maybeOptions)               *)
(***************************************************************************)
SecondArgs == {"noArguments", "omitted", "schema", "options", "invalid"}

\* the argument checks and toPgPool: what setup has in hand before the builder
Arguments(first, second) ==
    IF second = "invalid"
    THEN [threw |-> TRUE, pgPool |-> "none", releasePgPool |-> "null"]
    ELSE IF first.kind = "undefined" /\ second # "noArguments"
    THEN [threw |-> TRUE, pgPool |-> "none", releasePgPool |-> "null"]
    ELSE toPgPool(first)

Setup ==
    /\ setup = "unset" /\ exited = 0
    /\ LET r == Arguments(poolOrConfig, secondArg) IN
         /\ pgPool' = r.pgPool
         /\ releasePgPool' = r.releasePgPool
         /\ IF r.threw \/ optionsConflict
            THEN /\ setup' = "threw"
                 /\ UNCHANGED <<pc, attempts, delay, caught, hookCalls, sleeps, exited>>
                 /\ UNCHANGED <<buildStarts, watchCall, watches>>
            ELSE /\ setup' = "ok"
                 /\ BeginAttempt
    /\ UNCHANGED <<wsVars, readVars, poolOrConfig, secondArg, optionsConflict, poolVars, optionVars>>
    /\ UNCHANGED <<released, releaseWatchFn, gqlSchema, schemaPromise>>
    /\ UNCHANGED <<failuresLeft, nextSnapshot, exports, exitCode>>
    /\ UNCHANGED <<hookDurs, vetoed, emitted, relVars>>

(***************************************************************************)
(* Initial states                                                          *)
(***************************************************************************)
\* everything but the arguments and options, before postgraphile() is called
Blank ==
    /\ poolEnded = FALSE /\ endCalls = 0
    /\ released = FALSE /\ releaseWatchFn = 0 /\ gqlSchema = 0
    /\ schemaPromise = Pending
    /\ attempts = 0 /\ delay = 0 /\ caught = "none"
    /\ failuresLeft = MaxFailures /\ nextSnapshot = 1
    /\ exports = 0 /\ exitCode = 0 /\ exited = 0
    /\ sleeps = <<>> /\ hookCalls = <<>> /\ hookDurs = <<>> /\ vetoed = FALSE
    /\ emitted = <<>> /\ rel = <<>>
    /\ calls = {} /\ exportFailed = 0

InitPool ==
    /\ poolOrConfig \in JsValues
    /\ secondArg \in SecondArgs
    /\ secondArg = "noArguments" => poolOrConfig.kind = "undefined"
    /\ optionsConflict \in BOOLEAN
    /\ watchPg \in BOOLEAN
    /\ retryOnInitFail = "absent"
    /\ setup = "unset" /\ pgPool = "none" /\ releasePgPool = "null"
    /\ pc = "unstarted" /\ buildStarts = 0
    /\ watchCall = NoWatchCall /\ watches = {}
    /\ Blank
    /\ NoBridge

NextPool == Setup

SpecPool == InitPool /\ [][NextPool]_vars

\* the state postgraphile() returns the handler in
Init ==
    /\ poolOrConfig \in SampleInputs
    /\ secondArg = IF poolOrConfig = NoArgument THEN "noArguments" ELSE "options"
    /\ optionsConflict = FALSE
    /\ watchPg \in (IF poolOrConfig = NoArgument THEN {FALSE} ELSE BOOLEAN)
    /\ retryOnInitFail \in (IF poolOrConfig = NoArgument THEN {"absent"}
                            ELSE {"absent", "truthy", "function"})
    /\ setup = "ok"
    /\ pgPool = toPgPool(poolOrConfig).pgPool
    /\ releasePgPool = toPgPool(poolOrConfig).releasePgPool
    /\ buildStarts = 1
    /\ pc = IF watchPg THEN "watch" ELSE "create"
    /\ watchCall = IF watchPg THEN [id |-> 1, delivered |-> FALSE] ELSE NoWatchCall
    /\ watches = IF watchPg THEN {1} ELSE {}
    /\ Blank
    /\ NoBridge

Next ==
    \/ CreateResolve
    \/ CreateReject
    \/ \E w \in watches : WatchDeliver(w)
    \/ WatchResolve
    \/ WatchReject
    \/ \E dur \in HookDurations : HookApprove(dur)
    \/ \E dur \in HookDurations : HookVeto(dur)
    \/ HookReject
    \/ ReleaseOnceWatchDone
    \/ SleepDone
    \/ \E call \in 1..exports : ExportFail(call)
    \/ ReleaseCall
    \/ \E i \in 1..Len(rel) : ReleaseWatchDone(i)

Spec == Init /\ [][Next]_vars

\* a handler with a retry policy, and callers of getGraphQLSchema
InitReaders ==
    /\ Init
    /\ poolOrConfig = ConnectionString
    /\ retryOnInitFail # "absent"

NextReaders ==
    \/ CreateResolve
    \/ CreateReject
    \/ \E w \in watches : WatchDeliver(w)
    \/ WatchResolve
    \/ WatchReject
    \/ \E dur \in HookDurations : HookApprove(dur)
    \/ \E dur \in HookDurations : HookVeto(dur)
    \/ HookReject
    \/ ReleaseOnceWatchDone
    \/ SleepDone
    \/ GetSchemaCall

SpecReaders == InitReaders /\ [][NextReaders]_vars

\* a handler whose retry policy approves every retry: every awaited call
\* settles, a sleep ends, and the data source fails at most MaxFailures times
InitRetry ==
    /\ Init
    /\ poolOrConfig = ConnectionString
    /\ retryOnInitFail # "absent"

BuildSettles == CreateResolve \/ CreateReject
WatchSettles == WatchResolve \/ WatchReject
HookApproves == \E dur \in HookDurations : HookApprove(dur)

NextRetry ==
    \/ CreateResolve
    \/ CreateReject
    \/ \E w \in watches : WatchDeliver(w)
    \/ WatchResolve
    \/ WatchReject
    \/ \E dur \in HookDurations : HookApprove(dur)
    \/ SleepDone

SpecRetry ==
    /\ InitRetry /\ [][NextRetry]_vars
    /\ WF_vars(BuildSettles) /\ WF_vars(WatchSettles)
    /\ WF_vars(HookApproves) /\ WF_vars(SleepDone)

\* the catch block entered with every attempt count: a data source that has
\* failed attempts times, under a policy that approved each retry (a hook that
\* took 50 ms, or a retryOnInitFail that is no function) or under none
InitBackoff ==
    /\ poolOrConfig = ConnectionString /\ secondArg = "options" /\ optionsConflict = FALSE
    /\ watchPg = FALSE
    /\ retryOnInitFail \in {"absent", "truthy", "function"}
    /\ setup = "ok" /\ pgPool = "new" /\ releasePgPool = "end"
    /\ poolEnded = FALSE /\ endCalls = 0
    /\ released = FALSE /\ releaseWatchFn = 0 /\ gqlSchema = 0
    /\ schemaPromise = Pending
    /\ pc = "create"
    /\ attempts \in 0..(MaxBackoffAttempts - 1)
    /\ retryOnInitFail = "absent" => attempts = 0
    /\ delay = IF attempts = 0 THEN 0 ELSE Backoff(attempts)
    /\ caught = IF attempts = 0 THEN "none" ELSE "build"
    /\ failuresLeft = 1 /\ nextSnapshot = 1
    /\ watchCall = NoWatchCall /\ watches = {}
    /\ exports = 0 /\ exitCode = 0 /\ exited = 0
    /\ buildStarts = attempts + 1
    /\ sleeps = IF retryOnInitFail = "truthy" THEN [k \in 1..attempts |-> Backoff(k)] ELSE <<>>
    /\ hookCalls = IF retryOnInitFail = "function" THEN [k \in 1..attempts |-> k] ELSE <<>>
    /\ hookDurs = IF retryOnInitFail = "function" THEN [k \in 1..attempts |-> 50] ELSE <<>>
    /\ vetoed = FALSE /\ emitted = <<>> /\ rel = <<>>
    /\ calls = {} /\ exportFailed = 0
    /\ NoBridge

NextBackoff == CreateReject

SpecBackoff == InitBackoff /\ [][NextBackoff]_vars

(***************************************************************************)
(* The bridge.  enhanceHttpServerWithWebSockets awaits getGraphQLSchema()  *)
(* before it creates the server: the builder has returned a snapshot.      *)
(***************************************************************************)
Serving ==
    /\ poolOrConfig = ConnectionString /\ secondArg = "options" /\ optionsConflict = FALSE
    /\ setup = "ok" /\ pgPool = "new" /\ releasePgPool = "end"
    /\ poolEnded = FALSE /\ endCalls = 0
    /\ watchPg = FALSE /\ retryOnInitFail = "absent"
    /\ released = FALSE /\ releaseWatchFn = 0
    /\ gqlSchema = 1 /\ schemaPromise = [state |-> "resolved", value |-> 1]
    /\ pc = "done" /\ attempts = 0 /\ delay = 0 /\ caught = "none"
    /\ failuresLeft = 0 /\ nextSnapshot = 2
    /\ watchCall = NoWatchCall /\ watches = {}
    /\ exports = 1 /\ exitCode = 0 /\ exited = 0
    /\ buildStarts = 1
    /\ sleeps = <<>> /\ hookCalls = <<>> /\ hookDurs = <<>> /\ vetoed = FALSE
    /\ emitted = <<>> /\ rel = <<>>
    /\ calls = {} /\ exportFailed = 0

\* header sets of an upgrade request
HeaderSets ==
    {[n \in HeaderNames |-> IF n = "authorization" THEN a ELSE o] :
        a \in {Absent, Str(""), Str("Y")}, o \in {Absent, Str("O")}}

ParamValues == {Str("X"), Str(""), Num("7")}

\* connectionParams objects: up to MaxParams entries with distinct keys
ParamObjects ==
    {[defined |-> TRUE, entries |-> e] :
        e \in {q \in UNION {[1..n -> ParamKeys \X ParamValues] : n \in 0..MaxParams} :
                  \A i, j \in 1..Len(q) : i # j => q[i][1] # q[j][1]}}
    \cup {[defined |-> FALSE, entries |-> <<>>]}

\* socket 1 connects with any request and any parameters, the others plainly
InitConnect ==
    /\ Serving
    /\ websockets \in {"v0", "v1"}
    /\ websocketServer = Enhanced(websockets)
    /\ websocketOperations = "subscriptions"
    /\ \E hasRequest \in BOOLEAN, headers \in HeaderSets, connectionParams \in ParamObjects :
         /\ websockets = "v1" => hasRequest
         /\ sockets = [s \in Sockets |->
                IF s = 1 THEN Upgraded(Sent(hasRequest, headers, connectionParams))
                ELSE Upgraded(PlainSent)]
    /\ NoSlots
    /\ message = NoMessage /\ outcome = NoOutcome

NextConnect == \E s \in Sockets : Connect(s)

SpecConnect == InitConnect /\ [][NextConnect]_vars

InitWs ==
    /\ Serving
    /\ websockets \in {"v0", "v1"}
    /\ websocketServer = Enhanced(websockets)
    /\ websocketOperations = "subscriptions"
    /\ sockets = [s \in Sockets |-> Upgraded(PlainSent)]
    /\ NoSlots
    /\ message = NoMessage /\ outcome = NoOutcome

\* connects, of the sockets followed and of others, and the keys computed
\* for operations of the sockets followed
NextKey ==
    \/ \E s \in Sockets : Connect(s)
    \/ OtherConnect
    \/ \E s \in Sockets : \E opId \in KeyOpIds : KeyBuild(s, opId)

SpecKey == InitWs /\ [][NextKey]_vars

\* the operation ids the client of a socket uses: two on the first socket,
\* and on the second socket one that the first uses too
ClientOpIds(s) == IF s = 1 THEN OpIds ELSE {"a"}

NextWs ==
    \/ \E s \in Sockets : Connect(s)
    \/ \E s \in Sockets : \E opId \in ClientOpIds(s) : OperationStart(s, opId)
    \/ \E s \in Sockets : \E opId \in ClientOpIds(s) : MiddlewareDone(s, opId)
    \/ \E s \in Sockets : \E opId \in ClientOpIds(s) : ContextReady(s, opId)
    \/ \E s \in Sockets : \E opId \in ClientOpIds(s) : ContextFail(s, opId)
    \/ \E s \in Sockets : \E opId \in ClientOpIds(s) : OperationComplete(s, opId)
    \/ \E s \in Sockets : SocketClose(s)

SpecWs == InitWs /\ [][NextWs]_vars

\* every writeHead call, on the response of the first socket
InitWriteHead ==
    /\ Serving
    /\ websockets \in {"v0", "v1"}
    /\ websocketServer = Enhanced(websockets)
    /\ websocketOperations = "subscriptions"
    /\ socketId = 1
    /\ sockets = [s \in Sockets |->
            IF s = 1
            THEN [Upgraded(PlainSent) EXCEPT !.state = "connected", !.postgraphileId = 1]
            ELSE Upgraded(PlainSent)]
    /\ keepalivePromisesByContextKey = [k \in ContextKeys |-> 0]
    /\ deferreds = {}
    /\ operations = [s \in Sockets |-> [o \in OpIds |->
            IF s = 1 /\ o = "a" THEN [started |-> TRUE, contexts |-> 1] ELSE NoOperation]]
    /\ responses = [s \in Sockets |->
            IF s = 1 THEN [NoResponse EXCEPT !.made = 1, !.applying["a"] = 1] ELSE NoResponse]
    /\ writeHeadCall \in WriteHeadCalls
    /\ keys = {}
    /\ message = NoMessage /\ outcome = NoOutcome

NextWriteHead == WriteHead

SpecWriteHead == InitWriteHead /\ [][NextWriteHead]_vars

\* a handler with a retry policy, and calls of enhanceHttpServerWithWebSockets
\* on its http server while the schema is built and afterwards
InitEnhance ==
    /\ Init
    /\ poolOrConfig = ConnectionString
    /\ retryOnInitFail = "function"
    /\ ~watchPg

NextEnhance ==
    \/ CreateResolve
    \/ CreateReject
    \/ \E dur \in HookDurations : HookApprove(dur)
    \/ HookReject
    \/ SleepDone
    \/ \E arg \in WebsocketsArguments : EnhanceCall(arg)
    \/ EnhanceResume
    \/ EnhanceReject

SpecEnhance == InitEnhance /\ [][NextEnhance]_vars

\* the builder in watch mode, after the first snapshot
ServingWatch ==
    /\ poolOrConfig = ConnectionString /\ secondArg = "options" /\ optionsConflict = FALSE
    /\ setup = "ok" /\ pgPool = "new" /\ releasePgPool = "end"
    /\ poolEnded = FALSE /\ endCalls = 0
    /\ watchPg = TRUE /\ retryOnInitFail = "absent"
    /\ released = FALSE /\ releaseWatchFn = 1
    /\ gqlSchema = schema /\ schemaPromise = [state |-> "resolved", value |-> schema]
    /\ pc = "done" /\ attempts = 0 /\ delay = 0 /\ caught = "none"
    /\ failuresLeft = 0 /\ nextSnapshot = schema + 1
    /\ watchCall = NoWatchCall /\ watches = {1}
    /\ exports = 1 /\ exitCode = 0 /\ exited = 0
    /\ buildStarts = 1
    /\ sleeps = <<>> /\ hookCalls = <<>> /\ hookDurs = <<>> /\ vetoed = FALSE
    /\ emitted = <<[snapshot |-> schema, read |-> [state |-> "resolved", value |-> schema]]>>
    /\ rel = <<>>
    /\ calls = {} /\ exportFailed = 0

\* every message, under either protocol version and either setting of
\* websocketOperations: the first socket is connected, the message has started
\* its operation "a" and getContext has resolved for it
InitValidate ==
    /\ ServingWatch
    /\ websockets \in {"v0", "v1"}
    /\ websocketServer = Enhanced(websockets)
    /\ websocketOperations \in {"all", "subscriptions", "undefined"}
    /\ socketId = 1
    /\ sockets = [s \in Sockets |->
            IF s = TheSocket
            THEN [Upgraded(PlainSent) EXCEPT !.state = "connected", !.postgraphileId = 1]
            ELSE Upgraded(PlainSent)]
    /\ keepalivePromisesByContextKey =
            [k \in ContextKeys |-> IF k = contextKey(sockets[TheSocket], TheOpId) THEN 1 ELSE 0]
    /\ deferreds = {[key |-> contextKey(sockets[TheSocket], TheOpId), id |-> 1]}
    /\ operations = [s \in Sockets |-> [o \in OpIds |->
            IF s = TheSocket /\ o = TheOpId THEN [started |-> TRUE, contexts |-> 0]
            ELSE NoOperation]]
    /\ responses = [s \in Sockets |->
            IF s = TheSocket THEN [NoResponse EXCEPT !.stored = TRUE, !.made = 1]
            ELSE NoResponse]
    /\ writeHeadCall = NoWriteHead
    /\ keys = {}
    /\ message \in {m \in Messages : m.moreValidationRules = 0 => m.moreErrors = <<>>}
    /\ outcome = NoOutcome

NextValidate ==
    \/ Validate
    \/ StaticValidate
    \/ Execute
    \/ Unsubscribe
    \/ \E w \in watches : WatchDeliver(w)

SpecValidate == InitValidate /\ [][NextValidate]_vars

(***************************************************************************)
(* Claims                                                                  *)
(***************************************************************************)
\* the delay the specification gives for the k-th consecutive failure
ExpectedDelay(k) == IF 100 * k * k < 30000 THEN 100 * k * k ELSE 30000

\* release call i has returned or thrown
Returned(i) == i \in 1..Len(rel) /\ rel[i].pc = "done"

\* C1: the first call of release() succeeds and every later call raises an
\* error, whatever pool input the handler was built from.
C1_SecondReleaseRaises ==
    \A i \in 1..Len(rel) :
        Returned(i) => rel[i].result = (IF i = 1 THEN "ok" ELSE "error")

\* C2: a release() of a handler that created its pool leaves the pool ended,
\* and succeeds when the pool was not ended before; with a pool the caller
\* supplied every release() completes without error and the pool is never ended.
C2_ReleaseEndsOwnPoolOnly ==
    /\ [](pgPool = "input" => ~poolEnded /\ endCalls = 0)
    /\ [][\A i \in 1..Len(rel') :
            (Returned(i)' /\ ~Returned(i)) =>
                IF pgPool = "new"
                THEN poolEnded' /\ (~poolEnded => rel'[i].result = "ok")
                ELSE rel'[i].result = "ok" /\ ~poolEnded']_vars

C2_Witness ==
    /\ pgPool = "new" /\ poolEnded /\ endCalls = 1
    /\ Len(rel) = 1 /\ Returned(1) /\ rel[1].result = "ok"

\* C3: over any sequence of build attempts, vetoes and release() calls the end
\* operation of an internally created pool is invoked at most once; stated for
\* the case the claim singles out, a single release() (after a retry veto).
C3_EndInvokedAtMostOnce == Len(rel) <= 1 => endCalls <= 1

\* a first argument was passed and postgraphile() has returned or thrown
Called == setup # "unset" /\ secondArg \notin {"noArguments", "invalid"}

\* C4: every first argument that is not a pool handle, not a string and not a
\* plain object makes setup throw, and no pool is created.  (null and an
\* explicit undefined are left out: they are read as passing nothing.)
C4_InvalidInputThrows ==
    (/\ Called
     /\ poolOrConfig.kind \notin {"undefined", "null", "string"}
     /\ ~quacksLikePgPool(poolOrConfig)
     /\ ~isPlainObject(poolOrConfig))
        => setup = "threw" /\ pgPool = "none"

\* the structural test as C5 words it
ClaimedHandle(x) ==
    \/ x.instanceofPool
    \/ /\ x.kind = "object"
       /\ x.ctor \in {"PoolSuper", "OtherPool", "BoundPool"}
       /\ x.Client /\ x.options /\ x.connect /\ x.end /\ x.query

\* C5 as claimed: toPgPool returns one pool, and a null release callback if and
\* only if the input is a genuine Pool instance or has a constructor named Pool
\* or BoundPool and all of Client, options, connect, end, query; in that case
\* the pool is the input itself.
C5_NullReleaseIffStructural ==
    pgPool # "none" =>
        /\ releasePgPool = "null" <=> ClaimedHandle(poolOrConfig)
        /\ pgPool = "input" <=> ClaimedHandle(poolOrConfig)

\* C5 as amended: the callback is null if and only if the input is a Pool
\* instance, or its constructor is Pool.super_ itself, or it is an object whose
\* constructor is named Pool or BoundPool with all of Client, options, connect,
\* end, query; in that case the pool is the input itself, else a new pool.
C5_NullReleaseIffQuacks ==
    pgPool # "none" =>
        LET x == poolOrConfig
            handle == \/ ClaimedHandle(x)
                      \/ x.ctor = "PoolSuper"
        IN  /\ releasePgPool = "null" <=> handle
            /\ pgPool = "input" <=> handle
            /\ pgPool = "new" <=> releasePgPool = "end"

C5_Witness ==
    /\ setup = "ok" /\ poolOrConfig = ForeignPool
    /\ pgPool = "input" /\ releasePgPool = "null"

\* C6 as claimed: a build that failed N times and then succeeded has waited
\* exactly N times, the k-th wait min(100 k^2, 30000) ms long, and has called
\* the hook, when there is one, N times with the attempt numbers 1, ..., N.
C6_ExactlyNWaits ==
    pc = "done" =>
        /\ sleeps = [k \in 1..attempts |-> ExpectedDelay(k)]
        /\ retryOnInitFail = "function" => hookCalls = [k \in 1..attempts |-> k]

\* the failures after which the builder itself waits: all of them when
\* retryOnInitFail is no function, else those whose hook call took under 50 ms
WaitedFailures ==
    IF retryOnInitFail = "function"
    THEN {k \in 1..Len(hookDurs) : hookDurs[k] < 50}
    ELSE 1..attempts

\* the i-th smallest element of a set of numbers
Nth(S, i) == CHOOSE k \in S : Cardinality({j \in S : j <= k}) = i

\* C6 as amended: after N failures and a success the hook, when there is one,
\* was called N times with 1, ..., N in order, and the builder has waited once
\* for every failure whose hook call resolved in under 50 ms (for every failure
\* when retryOnInitFail is set but is no function), in order, the wait after
\* the k-th failure being min(100 k^2, 30000) ms.
C6_WaitsAfterFastApprovals ==
    pc = "done" =>
        /\ Len(sleeps) = Cardinality(WaitedFailures)
        /\ \A i \in 1..Len(sleeps) : sleeps[i] = ExpectedDelay(Nth(WaitedFailures, i))
        /\ IF retryOnInitFail = "function"
           THEN hookCalls = [k \in 1..attempts |-> k] /\ Len(hookDurs) = attempts
           ELSE hookCalls = <<>>

C6_Witness ==
    /\ pc = "done" /\ retryOnInitFail = "function"
    /\ attempts = 2 /\ hookDurs = <<50, 49>> /\ sleeps = <<400>>

\* C7: the delay computed after the k-th consecutive failure is
\* min(100 k^2, 30000): below 30000 up to k = 17, 30000 from k = 18 on, and
\* never smaller than the delay before it.
C7_BackoffDelay ==
    /\ [](attempts >= 1 =>
            /\ delay = ExpectedDelay(attempts)
            /\ attempts <= 17 => delay < 30000
            /\ attempts >= 18 => delay = 30000)
    /\ [][delay' >= delay]_vars

C7_Witness == attempts = 18 /\ delay = 30000 /\ pc # "create"

\* C8: once the hook has vetoed a retry no further build attempt is started,
\* and when the veto has been handled every caller of getGraphQLSchema gets a
\* rejected promise, no watch subscription is active and an internally
\* created pool is ended.
C8_VetoFailsAndReleases ==
    /\ vetoed => pc \in {"releaseOnceWatch", "failed"}
    /\ (vetoed /\ pc = "failed") =>
            /\ getGraphQLSchema.state = "rejected"
            /\ watches = {}
            /\ releasePgPool = "end" => poolEnded

\* C9: a hook that approves in under 50 ms is followed by a wait of the
\* default delay of the current attempt count, and the next attempt does not
\* start before it; a hook that approves after 50 ms or more is followed by
\* the next attempt at once, with no wait.
C9_DefaultWaitAfterFastHook ==
    [][(pc = "hook" /\ hookDurs' # hookDurs /\ ~vetoed') =>
            IF hookDurs'[Len(hookDurs')] < 50
            THEN /\ pc' = "sleep"
                 /\ sleeps' = Append(sleeps, ExpectedDelay(attempts))
                 /\ buildStarts' = buildStarts
            ELSE /\ sleeps' = sleeps
                 /\ buildStarts' = buildStarts + 1]_vars

C9_Witness ==
    /\ retryOnInitFail = "function" /\ pc = "sleep"
    /\ hookDurs = <<50, 49>> /\ sleeps = <<400>> /\ buildStarts = 2

\* C10: without a retry policy the first build failure terminates the process
\* with exit code 34: no delay is waited and no second attempt is started.
C10_NoPolicyExits ==
    (retryOnInitFail = "absent" /\ attempts >= 1) =>
        /\ exited = 34 /\ pc = "exited"
        /\ attempts = 1 /\ buildStarts = 1
        /\ sleeps = <<>> /\ hookCalls = <<>>

C10_Witness == retryOnInitFail = "absent" /\ exited = 34 /\ caught = "build"

\* the state of the promise a recorded call of getGraphQLSchema was handed
Settled(c) == IF c.future = "gqlSchemaPromise" THEN schemaPromise ELSE c.now

\* C11: at most one build is in flight, and every call of getGraphQLSchema
\* made while it is in flight (also after the watch callback has delivered a
\* snapshot and before the watch promise resolves) is handed the same in-flight
\* promise and resolves to the same snapshot.
C11_CallersShareInFlightFuture ==
    /\ (IF pc = "create" THEN 1 ELSE 0) + (IF watchCall.id # 0 THEN 1 ELSE 0) <= 1
    /\ \A c \in calls : c.future = "gqlSchemaPromise"
    /\ \A c, d \in calls :
         (Settled(c).state = "resolved" /\ Settled(d).state = "resolved")
            => Settled(c).value = Settled(d).value

\* C12: in watch mode every change replaces gqlSchema by the new snapshot and
\* then emits 'schemas:changed'; a listener of that event reads the new
\* snapshot, and from the first snapshot on getGraphQLSchema is never pending
\* and resolves to the snapshot before or after the swap.
C12_SwapThenEmit ==
    /\ [](\A i \in 1..Len(emitted) :
            emitted[i].read = [state |-> "resolved", value |-> emitted[i].snapshot])
    /\ [](gqlSchema # 0 => getGraphQLSchema = [state |-> "resolved", value |-> gqlSchema])
    /\ [][/\ gqlSchema # 0 => getGraphQLSchema'.value \in {gqlSchema, nextSnapshot}
          /\ (watchPg /\ nextSnapshot' # nextSnapshot) =>
                /\ gqlSchema' = nextSnapshot
                /\ Len(emitted') = Len(emitted) + 1
                /\ emitted'[Len(emitted')].snapshot = nextSnapshot
          /\ emitted' # emitted => nextSnapshot' # nextSnapshot]_vars

C12_Witness ==
    /\ watchPg /\ pc = "watch" /\ gqlSchema = 2 /\ Len(emitted) = 2
    /\ emitted[2].read = [state |-> "resolved", value |-> 2]

\* C13: when the watch promise resolves before the callback was called the
\* consistency error is fatal: it is not handed to the retry policy, no retry
\* delay is waited and no further attempt follows.
C13_ConsistencyErrorIsFatal ==
    caught = "consistency" => pc \in {"failed", "exited"}

\* C14 as claimed: a failed export neither fails nor retries the build, sets
\* process.exitCode to 35 without exiting, and getGraphQLSchema keeps resolving
\* to the snapshot that was being exported.
C14_ExportFailureKeepsExported ==
    [][(exitCode' # exitCode \/ exportFailed' # exportFailed) =>
            /\ exitCode' = 35 /\ exited' = 0
            /\ UNCHANGED <<gqlSchema, schemaPromise, pc, attempts, buildStarts, sleeps, hookCalls>>
            /\ getGraphQLSchema' = [state |-> "resolved", value |-> exportFailed']]_vars

\* C14 as amended: a failed export neither fails nor retries the build and does
\* not change the active snapshot; it sets process.exitCode to 35 without
\* exiting, and getGraphQLSchema keeps resolving to the active snapshot, which
\* is the exported one or one the watch has swapped in since.
C14_ExportFailureKeepsActive ==
    [][(exitCode' # exitCode \/ exportFailed' # exportFailed) =>
            /\ exitCode' = 35 /\ exited' = 0
            /\ UNCHANGED <<gqlSchema, schemaPromise, pc, attempts, buildStarts, sleeps, hookCalls>>
            /\ getGraphQLSchema' = getGraphQLSchema
            /\ getGraphQLSchema'.state = "resolved"
            /\ getGraphQLSchema'.value >= exportFailed'
            /\ ~watchPg => getGraphQLSchema'.value = exportFailed']_vars

C14_Witness ==
    /\ exitCode = 35 /\ exited = 0 /\ exportFailed = 1
    /\ gqlSchema = 2 /\ pc = "done"

\* C15: storing a cell under a key that holds one resolves the old cell's
\* deferred first: every unresolved deferred is the one stored under its key
\* (so there is at most one per key), and a slot never passes from one
\* deferred to another while the first is unresolved.
C15_OneLiveCellPerKey ==
    /\ [](\A d \in deferreds : keepalivePromisesByContextKey[d.key] = d.id)
    /\ [][\A k \in ContextKeys :
            (keepalivePromisesByContextKey[k] # 0
                /\ keepalivePromisesByContextKey'[k] # keepalivePromisesByContextKey[k])
              => [key |-> k, id |-> keepalivePromisesByContextKey[k]] \notin deferreds']_vars

\* a deferred with id 2 is made only while deferred 1 of its key is unresolved
C15_Witness ==
    \E k \in ContextKeys :
        /\ keepalivePromisesByContextKey[k] = 2
        /\ [key |-> k, id |-> 2] \in deferreds
        /\ [key |-> k, id |-> 1] \notin deferreds

\* C16: the release of one key (operation complete) resolves the deferred
\* stored under it and clears its slot; the slots and deferreds of all other
\* keys, of the same socket and of other sockets, stay as they are, and with
\* nothing stored under the key nothing changes.
C16_ReleaseTouchesOneKey ==
    [][\A s \in Sockets, o \in OpIds :
        (sockets' = sockets /\ operations[s][o].started /\ ~operations'[s][o].started) =>
            LET k == contextKey(sockets[s], o) IN
            /\ keepalivePromisesByContextKey'[k] = 0
            /\ \A j \in ContextKeys \ {k} :
                 keepalivePromisesByContextKey'[j] = keepalivePromisesByContextKey[j]
            /\ deferreds' = deferreds \ {[key |-> k, id |-> keepalivePromisesByContextKey[k]]}]_vars

\* operation a of socket 1 is complete and its slot clear, while operation b
\* of the socket and an operation of the other socket hold their cells
C16_Witness ==
    /\ sockets[1].state = "connected" /\ sockets[2].state = "connected"
    /\ ~operations[1]["a"].started /\ operations[1]["a"].contexts = 0
    /\ keepalivePromisesByContextKey[contextKey(sockets[1], "a")] = 0
    /\ [key |-> contextKey(sockets[1], "b"), id |-> 1] \in deferreds
    /\ [key |-> contextKey(sockets[2], "a"), id |-> 1] \in deferreds
    /\ Cardinality(deferreds) = 2

\* C17: once the close of a socket has been handled no deferred made for an
\* operation of that socket is unresolved.
C17_CloseReleasesAllSlots ==
    \A s \in Sockets :
        sockets[s].state = "closed" =>
            \A d \in deferreds : d.key \notin SocketKeys(sockets[s])

\* C18: for every header name present in the upgrade request the header stored
\* for the socket is the request's value, whatever the connection parameters
\* hold under any letter case, in both protocol versions.
C18_HeadersWin ==
    \A s \in Sockets :
        sockets[s].state = "connected" =>
            \A n \in HeaderNames :
                sockets[s].sent.headers[n] # Absent =>
                    sockets[s].postgraphileHeaders[n] = sockets[s].sent.headers[n]

\* C19: onConnect changes the request's headers in at most one way: the
\* authorization header becomes the authorization connection parameter (key
\* lower-cased), and only when the request carried no authorization header.
C19_OnlyAuthorizationCopied ==
    \A s \in Sockets :
        sockets[s].state = "connected" =>
            \A n \in HeaderNames :
                sockets[s].headers[n] # sockets[s].sent.headers[n] =>
                    /\ n = "authorization"
                    /\ sockets[s].sent.headers[n] = Absent
                    /\ sockets[s].headers[n] =
                         JsString(lowerCaseKeys(sockets[s].sent.connectionParams.entries)[n])

\* C20: an operation in which the per-request rules find a violation is never
\* given execution parameters, and when those rules were run (v0: always; v1:
\* when the static rules found nothing) the errors returned are exactly the
\* errors they found, in that order.
C20_ViolationsBlockExecution ==
    (/\ outcome.kind # "none"
     /\ message.moreValidationRules # 0
     /\ Len(message.moreErrors) # 0)
        => /\ outcome.kind \in {"rejected", "errors"}
           /\ (websockets = "v0" \/ message.staticErrors = <<>>)
                => outcome.errors = message.moreErrors

C20_Witness ==
    /\ websockets = "v1" /\ outcome.kind = "errors"
    /\ message.staticErrors = <<>> /\ message.moreValidationRules = 1
    /\ message.moreErrors = <<"e2", "e1">> /\ outcome.errors = <<"e2", "e1">>

\* the library has run the operation (or tried to)
Attempted == outcome.kind \in {"executed", "subscribed", "threw"}

\* C21: unless websocketOperations is 'all', a query or mutation is never
\* executed over the socket, the execute function throws instead; with 'all'
\* it is executed; a subscription is subscribed under every setting.
C21_QueriesOnlyWhenAll ==
    Attempted =>
        outcome.kind = IF message.operation = "subscription" THEN "subscribed"
                       ELSE IF websocketOperations = "all" THEN "executed"
                       ELSE "threw"

C21_Witness ==
    /\ outcome.kind = "threw"
    /\ websocketOperations = "undefined"
    /\ message.operation = "mutation"

\* C22: the handler of an operation start gives the operation the snapshot
\* the builder holds when the handler reads it, and the operation keeps that
\* snapshot through validation and execution: on a socket connected under the
\* first snapshot, an operation started after a hot swap runs on the new one.
C22_OperationUsesCurrentSnapshot ==
    [][/\ (outcome.kind = "none" /\ outcome'.kind # "none") => outcome'.schema = gqlSchema
       /\ outcome.kind # "none" => outcome'.schema = outcome.schema]_vars

C22_Witness ==
    /\ Attempted
    /\ sockets[TheSocket].state = "connected"
    /\ outcome.schema = gqlSchema
    /\ outcome.schema # schema

\* C24: in both protocol versions the static rules run before the
\* per-request rules, and an operation is run only after both layers have run
\* and have found nothing.
C24_StaticThenPerRequest ==
    /\ \A i, j \in DOMAIN outcome.ran :
           (outcome.ran[i] = "static" /\ outcome.ran[j] = "more") => i < j
    /\ Attempted =>
           /\ \E i \in DOMAIN outcome.ran : outcome.ran[i] = "static"
           /\ message.moreValidationRules # 0 => \E i \in DOMAIN outcome.ran : outcome.ran[i] = "more"
           /\ message.staticErrors = <<>>
           /\ message.moreErrors = <<>>

\* C29: once an operation that has its context was rejected at its start and
\* the library has let go of it, its slot is released.
C29_RejectedOperationReleased ==
    (/\ outcome.kind \in {"rejected", "errors"}
     /\ ~operations[TheSocket][TheOpId].started)
        => keepalivePromisesByContextKey[contextKey(sockets[TheSocket], TheOpId)] = 0

C25_ClosesExactlyOnViolation ==
    writeHeadCall.called =>
        (writeHeadCall.closed <=>
            \/ writeHeadCall.statusCode \notin 200..299
            \/ writeHeadCall.statusMessage = "object"
            \/ writeHeadCall.headers = "object")

\* C26: for each socket at most one response is constructed and the
\* middlewares are applied to at most one, however the operation starts on the
\* socket interleave.
C26_OneResponsePerSocket == \A s \in Sockets : responses[s].made <= 1

\* C28: when the completion of an operation has been handled and no context
\* acquisition of it is in flight, no deferred is stored under its key.
C28_CompletedOperationHoldsNoCell ==
    \A s \in Sockets : \A opId \in OpIds :
        (/\ sockets[s].state = "connected"
         /\ ~operations[s][opId].started
         /\ operations[s][opId].contexts = 0)
            => keepalivePromisesByContextKey[contextKey(sockets[s], opId)] = 0

\* C27: every connect takes the socket's identity from a counter that only
\* grows, and the identity is larger than every one given before; no two
\* sockets that have connected share an identity; and two keys computed for
\* different (socket, operation id) pairs are different texts.
C27_IdentitiesAndKeysDistinct ==
    /\ [](\A s, t \in Sockets :
            (s # t /\ sockets[s].state # "upgraded" /\ sockets[t].state # "upgraded")
                => sockets[s].postgraphileId # sockets[t].postgraphileId)
    /\ [](\A x, y \in keys : x.key = y.key => (x.socket = y.socket /\ x.opId = y.opId))
    /\ [][/\ socketId' >= socketId
          /\ \A s \in Sockets :
               sockets'[s].postgraphileId # sockets[s].postgraphileId
                   => (sockets'[s].postgraphileId > socketId
                       /\ sockets'[s].postgraphileId = socketId')]_vars

\* the sockets numbered 1 and 11, with operation ids "1a" and "a"
C27_Witness ==
    /\ sockets[1].postgraphileId = 1 /\ sockets[2].postgraphileId = 11
    /\ [socket |-> 1, opId |-> "1a", key |-> "1|1a"] \in keys
    /\ [socket |-> 2, opId |-> "a", key |-> "11|a"] \in keys

\* C30: once a release() call has returned and no watchPostGraphileSchema
\* call is in flight, no watch subscription is active.
C30_NoWatchAfterRelease ==
    ((\E i \in 1..Len(rel) : Returned(i)) /\ watchCall = NoWatchCall) => watches = {}

\* C31: no build attempt starts while a watch release function is held: the
\* catch block is never entered with the error of the guard at the top of try.
C31_GuardNeverReached ==
    /\ caught # "releaseWatchFnSet"
    /\ (watchPg /\ pc = "watch") => releaseWatchFn = 0

\* C32: when the build has failed for good without a veto (the retry hook
\* threw or rejected), the schema promise is rejected with status 503, no watch
\* subscription is active and a pool the handler created itself is ended.
C32_HookFailureReleases ==
    (pc = "failed" /\ ~vetoed) =>
        /\ schemaPromise = [state |-> "rejected", value |-> 503]
        /\ watches = {}
        /\ releasePgPool = "end" => poolEnded

\* C33: while no call is in flight, a server on which no subscription server
\* was installed is not marked as enabled and has no upgrade listener, and a
\* server never has more than one listener or subscription server.
C33_FailedCallLeavesServerUnchanged ==
    /\ (websocketServer.pc = "idle" /\ websocketServer.subscriptionServers = 0)
           => (~websocketServer.enabled /\ websocketServer.upgradeListeners = 0)
    /\ websocketServer.upgradeListeners <= 1
    /\ websocketServer.subscriptionServers <= 1

====
